---- MODULE Spec2Model ----
(***************************************************************************)
(* Model of scripts/generate_isometric_assets.py:                          *)
(*   - remove_chroma_key_background: corner-sampled background estimate    *)
(*     and 4-connected breadth-first flood fill from the image border;     *)
(*   - OpenRouterClient.generate_image: the retry loop and its counters.   *)
(* Colours are RGB triples of 8-bit integers, pixels are RGBA 4-tuples, a  *)
(* coordinate is <<x, y>>, an image is a function from its coordinates to  *)
(* pixels.                                                                 *)
(***************************************************************************)
EXTENDS Integers, Sequences, FiniteSets, TLC

\* ------------------------------------------------------------------------
\* Bounds of the explored inputs
\* ------------------------------------------------------------------------
MaxW == 3
MaxH == 3
MaxPixels == 9
MaxSample == 2
MaxCalls == 2
MaxRetriesArg == 3

\* Retry configuration (lines 77-79)
MAX_RETRIES == 3
RETRY_DELAY == 2

\* The import of Pillow succeeded (lines 55-58); without it the function has
\* no pixel grid at all and hands its argument back (lines 125-126).
HAS_PIL == TRUE

Magenta == <<255, 0, 255>>
Black == <<0, 0, 0>>
Palette == {Magenta, Black}

\* 70 is the default tolerance (line 109).  180 separates Black (distance^2
\* 32258) from Magenta (32768) around the estimate <<127, 0, 127>> of two
\* magenta and two black corners; 442 is the least integer >= sqrt(3 * 255^2).
Tolerances == {0, 70, 180, 442}
SampleSizes == 0..MaxSample
Modes == {"RGB", "RGBA"}
AlphaPatterns == {"opaque", "clear", "mixed"}

Cleared == <<0, 0, 0, 0>>
NoColor == <<-1, -1, -1>>

VARIABLES
    mode,          \* img.mode of the decoded input
    width, height, \* img.size
    pixels,        \* the decoded pixel grid
    tolerance, sample_size,
    pc,            \* "start", "once" (one call returned), "twice"
    first,         \* what the first call computed and returned
    second,        \* what the call on the first call's output returned
    total_cost,    \* OpenRouterClient.total_cost, in the unit of CostUnits
    total_requests, successful_requests,
    calls,         \* generate_image calls started so far
    cpc,           \* "idle", "loop" (at the head of the for loop), "returned"
    retries,       \* the retries argument of the running call
    attempt,       \* the loop variable
    ret,           \* what the call returned: "None" or "bytes"
    log,           \* the POSTs and sleeps of the running call, in order
    results,       \* per attempt of the running call: "data" or "fail"
    base_requests, \* total_requests when the running call started
    bytes_calls,   \* calls that returned bytes so far
    args,          \* main: the parsed command line
    mpc,           \* main: "start", "biomes", "autotile", "buildings", "summary", "exited"
    mi, mv,        \* main: position in biomes_to_generate / BUILDINGS, variant
    client,        \* main: "None" or "OpenRouterClient"
    success_count, fail_count,
    attempted,     \* main: the assets handed to a generate_* function, in order
    network_used,  \* main: some HTTP request was made
    written,       \* main: number of write_bytes calls
    exit_status,   \* main: "running", "0" or "1"
    fpc,           \* the call in steps: "idle", "start", "fill", "returned"
    img,           \* the call in steps: the RGBA pixel grid being edited
    bg_color,      \* the call in steps: the estimated background colour
    queue, visited, to_remove,
    out            \* the call in steps: what it returned

chromaVars == <<mode, width, height, pixels, tolerance, sample_size, pc, first, second>>
clientVars == <<total_cost, total_requests, successful_requests, calls, cpc, retries,
                attempt, ret, log, results, base_requests, bytes_calls>>
mainVars == <<args, mpc, mi, mv, client, success_count, fail_count, attempted,
              network_used, written, exit_status>>
fillVars == <<fpc, img, bg_color, queue, visited, to_remove, out>>
vars == <<chromaVars, clientVars, mainVars, fillVars>>

\* ------------------------------------------------------------------------
\* Images
\* ------------------------------------------------------------------------
Coords(w, h) == (0..(w - 1)) \X (0..(h - 1))

RGBPremultiplied(p) ==
    <<(p[1] * p[4]) \div 255, (p[2] * p[4]) \div 255, (p[3] * p[4]) \div 255>>

RGB(p) == <<p[1], p[2], p[3]>>

\* img.convert('RGBA') of an RGB image: alpha becomes fully opaque.
ConvertRGBA(m, px) ==
    IF m # "RGBA"
    THEN [c \in DOMAIN px |-> <<px[c][1], px[c][2], px[c][3], 255>>]
    ELSE px

AlphaOf(pat, c) ==
    CASE pat = "opaque" -> 255
      [] pat = "clear" -> 0
      [] OTHER -> IF (c[1] + c[2]) % 2 = 0 THEN 128 ELSE 0

\* ------------------------------------------------------------------------
\* remove_chroma_key_background
\* ------------------------------------------------------------------------
\* color_distance(c1, c2) ** 2: the radicand of line 142.
color_distance_sq(c1, c2) ==
    (c1[1] - c2[1]) * (c1[1] - c2[1])
  + (c1[2] - c2[2]) * (c1[2] - c2[2])
  + (c1[3] - c2[3]) * (c1[3] - c2[3])

\* dist <= tolerance (line 206); dist is a non-negative square root.
WithinToleranceStrict(c, bg, tol) ==
    tol >= 0 /\ color_distance_sq(c, bg) < tol * tol

WithinToleranceNoRoot(c, bg, tol) ==
    tol >= 0 /\ color_distance_sq(c, bg) <= tol

WithinTolerance(c, bg, tol) ==
    tol >= 0 /\ color_distance_sq(c, bg) <= tol * tol

\* the guard of line 151
SampleInBoundsNoLower(x, y, w, h) == x < w /\ y < h

SampleUnguarded(x, y, w, h) == TRUE

SampleInBounds(x, y, w, h) == 0 <= x /\ x < w /\ 0 <= y /\ y < h

\* The coordinates sample_corner_region reads, in reading order (dy outer,
\* dx inner).
sample_corner_region(start_x, start_y, size, w, h) ==
    LET at(k) == << start_x + ((k - 1) % size), start_y + ((k - 1) \div size) >>
        all == [k \in 1..(size * size) |-> at(k)]
        ok(c) == SampleInBounds(c[1], c[2], w, h)
    IN  IF size <= 0 THEN << >> ELSE SelectSeq(all, ok)

corner_regions(w, h, size) ==
    << <<0, 0>>, <<w - size, 0>>, <<0, h - size>>, <<w - size, h - size>> >>

\* The pixel reads of the loop of lines 164-166, all four corners in order.
CornerReads(w, h, size) ==
    LET cr == corner_regions(w, h, size)
    IN  sample_corner_region(cr[1][1], cr[1][2], size, w, h)
     \o sample_corner_region(cr[2][1], cr[2][2], size, w, h)
     \o sample_corner_region(cr[3][1], cr[3][2], size, w, h)
     \o sample_corner_region(cr[4][1], cr[4][2], size, w, h)

RECURSIVE SumChannel(_, _)
SumChannel(colors, ch) ==
    IF colors = << >> THEN 0
    ELSE Head(colors)[ch] + SumChannel(Tail(colors), ch)

AverageCeil(colors) ==
    LET n == Len(colors)
    IN  << (SumChannel(colors, 1) + n - 1) \div n,
           (SumChannel(colors, 2) + n - 1) \div n,
           (SumChannel(colors, 3) + n - 1) \div n >>

\* lines 173-176
Average(colors) ==
    << SumChannel(colors, 1) \div Len(colors),
       SumChannel(colors, 2) \div Len(colors),
       SumChannel(colors, 3) \div Len(colors) >>

\* lines 186-191: the seeds in queue order
RECURSIVE SeedRows(_, _, _)
SeedRows(x, w, h) ==
    IF x >= w THEN << >>
    ELSE << <<x, 0>>, <<x, h - 1>> >> \o SeedRows(x + 1, w, h)

RECURSIVE SeedCols(_, _, _)
SeedCols(y, w, h) ==
    IF y >= h THEN << >>
    ELSE << <<0, y>>, <<w - 1, y>> >> \o SeedCols(y + 1, w, h)

Seeds(w, h) == SeedRows(0, w, h) \o SeedCols(0, w, h)

\* the guard of line 198
OutOfBoundsOffByOne(x, y, w, h) == x < 0 \/ x >= w - 1 \/ y < 0 \/ y >= h - 1

OutOfBounds(x, y, w, h) == x < 0 \/ x >= w \/ y < 0 \/ y >= h

\* lines 209-212: the neighbours in the order they are appended
NeighbourOffsetsDiagonal ==
    << <<1, 0>>, <<-1, 0>>, <<0, 1>>, <<0, -1>>, <<1, 1>>, <<-1, -1>> >>

NeighbourOffsets == << <<1, 0>>, <<-1, 0>>, <<0, 1>>, <<0, -1>> >>

Neighbours(c, offsets) ==
    [i \in 1..Len(offsets) |-> <<c[1] + offsets[i][1], c[2] + offsets[i][2]>>]

\* One iteration of the while loop of lines 193-212 on the fill state
\* f = [queue, visited, to_remove]; offsets is the order of lines 209-212.
FillStepMarksUnmatched(f, px, w, h, bg, tol, offsets) ==
    LET c == Head(f.queue)
        rest == Tail(f.queue)
    IN  IF c \in f.visited THEN [f EXCEPT !.queue = rest]
        ELSE IF OutOfBounds(c[1], c[2], w, h) THEN [f EXCEPT !.queue = rest]
        ELSE [queue |-> IF WithinTolerance(RGB(px[c]), bg, tol)
                        THEN rest \o Neighbours(c, offsets) ELSE rest,
              visited |-> f.visited \cup {c},
              to_remove |-> f.to_remove \cup {c}]

FillStepMarkOnEnqueue(f, px, w, h, bg, tol, offsets) ==
    LET c == Head(f.queue)
        rest == Tail(f.queue)
        nb == Neighbours(c, offsets)
    IN  IF c \in f.visited THEN [f EXCEPT !.queue = rest]
        ELSE IF OutOfBounds(c[1], c[2], w, h) THEN [f EXCEPT !.queue = rest]
        ELSE IF WithinTolerance(RGB(px[c]), bg, tol)
             THEN [queue |-> rest \o nb,
                   visited |-> f.visited \cup {c} \cup {nb[i] : i \in 1..Len(nb)},
                   to_remove |-> f.to_remove \cup {c}]
             ELSE [queue |-> rest,
                   visited |-> f.visited \cup {c},
                   to_remove |-> f.to_remove]

FillStepSpreadsFromUnmatched(f, px, w, h, bg, tol, offsets) ==
    LET c == Head(f.queue)
        rest == Tail(f.queue)
    IN  IF c \in f.visited THEN [f EXCEPT !.queue = rest]
        ELSE IF OutOfBounds(c[1], c[2], w, h) THEN [f EXCEPT !.queue = rest]
        ELSE [queue |-> rest \o Neighbours(c, offsets),
              visited |-> f.visited \cup {c},
              to_remove |-> IF WithinTolerance(RGB(px[c]), bg, tol)
                            THEN f.to_remove \cup {c} ELSE f.to_remove]

FillStepNoVisitedCheck(f, px, w, h, bg, tol, offsets) ==
    LET c == Head(f.queue)
        rest == Tail(f.queue)
    IN  IF OutOfBounds(c[1], c[2], w, h) THEN [f EXCEPT !.queue = rest]
        ELSE IF WithinTolerance(RGB(px[c]), bg, tol)
             THEN [queue |-> rest \o Neighbours(c, offsets),
                   visited |-> f.visited \cup {c},
                   to_remove |-> f.to_remove \cup {c}]
             ELSE [queue |-> rest,
                   visited |-> f.visited \cup {c},
                   to_remove |-> f.to_remove]

FillStepKeepsSkipped(f, px, w, h, bg, tol, offsets) ==
    LET c == Head(f.queue)
        rest == Tail(f.queue)
    IN  IF c \in f.visited THEN f
        ELSE IF OutOfBounds(c[1], c[2], w, h) THEN [f EXCEPT !.queue = rest]
        ELSE IF WithinTolerance(RGB(px[c]), bg, tol)
             THEN [queue |-> rest \o Neighbours(c, offsets),
                   visited |-> f.visited \cup {c},
                   to_remove |-> f.to_remove \cup {c}]
             ELSE [queue |-> rest,
                   visited |-> f.visited \cup {c},
                   to_remove |-> f.to_remove]

FillStep(f, px, w, h, bg, tol, offsets) ==
    LET c == Head(f.queue)
        rest == Tail(f.queue)
    IN  IF c \in f.visited THEN [f EXCEPT !.queue = rest]
        ELSE IF OutOfBounds(c[1], c[2], w, h) THEN [f EXCEPT !.queue = rest]
        ELSE IF WithinTolerance(RGB(px[c]), bg, tol)
             THEN [queue |-> rest \o Neighbours(c, offsets),
                   visited |-> f.visited \cup {c},
                   to_remove |-> f.to_remove \cup {c}]
             ELSE [queue |-> rest,
                   visited |-> f.visited \cup {c},
                   to_remove |-> f.to_remove]

\* the loop of lines 193-212, run until the queue is empty
RECURSIVE FloodFill(_, _, _, _, _, _, _)
FloodFill(f, px, w, h, bg, tol, offsets) ==
    IF f.queue = << >> THEN f
    ELSE FloodFill(FillStep(f, px, w, h, bg, tol, offsets), px, w, h, bg, tol, offsets)

\* lines 181-212: the fill from the given seeds
Fill(seeds, px, w, h, bg, tol, offsets) ==
    FloodFill([queue |-> seeds, visited |-> {}, to_remove |-> {}],
              px, w, h, bg, tol, offsets)

ClearAlphaOnly(px, removed) ==
    [c \in DOMAIN px |->
        IF c \in removed THEN <<px[c][1], px[c][2], px[c][3], 0>> ELSE px[c]]

\* lines 214-216
ClearPixels(px, removed) ==
    [c \in DOMAIN px |-> IF c \in removed THEN Cleared ELSE px[c]]

\* The whole call.  The result records what the call returns (mode, width,
\* height, pixels of the returned image; returned = "image_bytes" when the
\* argument is handed back, "png" when the edited grid is encoded) and the
\* working values it computed.
remove_chroma_key_background(m, px0, w, h, tol, size) ==
    LET px == ConvertRGBA(m, px0)
        rd == CornerReads(w, h, size)
        all_bg_colors == [i \in 1..Len(rd) |->
                            IF rd[i] \in DOMAIN px THEN RGB(px[rd[i]]) ELSE NoColor]
    IN  IF ~HAS_PIL \/ all_bg_colors = << >>
        THEN [returned |-> "image_bytes", mode |-> m, width |-> w, height |-> h,
              pixels |-> px0, reads |-> rd, all_bg_colors |-> all_bg_colors,
              bg_color |-> NoColor, seeds |-> << >>,
              visited |-> {}, to_remove |-> {}]
        ELSE LET bg == Average(all_bg_colors)
                 f == Fill(Seeds(w, h), px, w, h, bg, tol, NeighbourOffsets)
             IN  [returned |-> "png", mode |-> "RGBA", width |-> w, height |-> h,
                  pixels |-> ClearPixels(px, f.to_remove), reads |-> rd,
                  all_bg_colors |-> all_bg_colors,
                  bg_color |-> bg, seeds |-> Seeds(w, h),
                  visited |-> f.visited, to_remove |-> f.to_remove]

NotCalled == [returned |-> "none"]

\* ------------------------------------------------------------------------
\* remove_chroma_key_background in steps: the part before the loop, one loop
\* iteration at a time, the part after the loop.
\* ------------------------------------------------------------------------
FillIdle ==
    /\ fpc = "idle" /\ img = << >> /\ bg_color = NoColor
    /\ queue = << >> /\ visited = {} /\ to_remove = {}
    /\ out = NotCalled

\* lines 125-191
Begin ==
    /\ fpc = "start"
    /\ LET px == ConvertRGBA(mode, pixels)
           rd == CornerReads(width, height, sample_size)
           all_bg_colors == [i \in 1..Len(rd) |->
                               IF rd[i] \in DOMAIN px THEN RGB(px[rd[i]]) ELSE NoColor]
       IN  IF ~HAS_PIL \/ all_bg_colors = << >>
           THEN /\ out' = [returned |-> "image_bytes", mode |-> mode, pixels |-> pixels]
                /\ fpc' = "returned"
                /\ UNCHANGED <<img, bg_color, queue>>
           ELSE /\ img' = px
                /\ bg_color' = Average(all_bg_colors)
                /\ queue' = Seeds(width, height)
                /\ fpc' = "fill"
                /\ UNCHANGED out
    /\ UNCHANGED <<visited, to_remove>>

\* lines 193-212, one iteration
Step ==
    /\ fpc = "fill"
    /\ queue # << >>
    /\ LET f == FillStep([queue |-> queue, visited |-> visited, to_remove |-> to_remove],
                         img, width, height, bg_color, tolerance, NeighbourOffsets)
       IN  /\ queue' = f.queue
           /\ visited' = f.visited
           /\ to_remove' = f.to_remove
    /\ UNCHANGED <<fpc, img, bg_color, out>>

\* lines 193 (the queue is empty) and 214-223
Finish ==
    /\ fpc = "fill"
    /\ queue = << >>
    /\ out' = [returned |-> "png", mode |-> "RGBA", pixels |-> ClearPixels(img, to_remove)]
    /\ fpc' = "returned"
    /\ UNCHANGED <<img, bg_color, queue, visited, to_remove>>

\* ------------------------------------------------------------------------
\* OpenRouterClient
\* ------------------------------------------------------------------------
\* __init__, lines 436-439
ClientInit ==
    /\ total_cost = 0
    /\ total_requests = 0
    /\ successful_requests = 0

ClientIdle ==
    /\ ClientInit
    /\ calls = 0 /\ cpc = "idle" /\ retries = 0 /\ attempt = 0
    /\ ret = "None" /\ log = << >> /\ results = << >>
    /\ base_requests = 0 /\ bytes_calls = 0

\* get_cost_summary, lines 441-448
get_cost_summary ==
    [total_requests |-> total_requests,
     successful_requests |-> successful_requests,
     failed_requests |-> total_requests - successful_requests,
     total_cost_usd |-> total_cost]

\* What one POST can meet.  post: the request returns a response, times out
\* or raises (also: response.json() raises); status: the HTTP status; cost:
\* the usage cost of the response; image: the first entry of
\* message.images is absent, a data URL, an http URL, another string;
\* decodes: base64.b64decode of that data URL succeeds; download: the GET of
\* the http URL answers 200, answers another status, or raises; content:
\* message.content is a data URL or not; content_decodes: its decoding
\* succeeds; choices: the response has a non-empty choices list.
CostUnits == {0, 1}
ResponseShapes ==
    [post : {"response", "timeout", "error"},
     status : {200, 429, 500},
     cost : CostUnits,
     choices : BOOLEAN,
     image : {"none", "data", "http", "other"},
     decodes : BOOLEAN,
     download : {"200", "404", "error"},
     content : {"data", "text"},
     content_decodes : BOOLEAN]

\* The fields no statement looks at are fixed to their first value: no
\* status without a response, no body without status 200, no message without
\* choices, no decoding without a data URL, no download without an http URL.
Relevant(r) ==
    /\ r.post # "response" => r.status = 200
    /\ (r.post # "response" \/ r.status # 200) => r.cost = 0 /\ ~r.choices
    /\ ~r.choices => r.image = "none" /\ r.content = "text"
    /\ r.image # "data" => ~r.decodes
    /\ r.image # "http" => r.download = "200"
    /\ (r.image = "data" \/ (r.image = "http" /\ r.download # "404")) => r.content = "text"
    /\ r.content # "data" => ~r.content_decodes

Responses == {r \in ResponseShapes : Relevant(r)}

\* lines 535-540: the content fallback
ContentFallback(resp) ==
    IF resp.content = "data"
    THEN [kind |-> IF resp.content_decodes THEN "return" ELSE "failed", succ |-> 1]
    ELSE [kind |-> "failed", succ |-> 0]

\* lines 507-542: the handling of a 200 response's body
HandleBody(resp) ==
    IF ~resp.choices THEN [kind |-> "failed", succ |-> 0]
    ELSE IF resp.image = "data"
         THEN [kind |-> IF resp.decodes THEN "return" ELSE "failed", succ |-> 1]
    ELSE IF resp.image = "http"
         THEN IF resp.download = "200" THEN [kind |-> "return", succ |-> 1]
              ELSE IF resp.download = "error" THEN [kind |-> "failed", succ |-> 0]
              ELSE ContentFallback(resp)
    ELSE ContentFallback(resp)

\* lines 484-557: the body of the try statement.  kind: "return" (bytes are
\* returned), "rate_limited" (the 429 branch), "failed" (any other way to
\* reach the end of the try statement, exceptions included).
ProcessResponse(resp) ==
    IF resp.post # "response" THEN [kind |-> "failed", succ |-> 0, cost |-> 0]
    ELSE IF resp.status = 200
         THEN [kind |-> HandleBody(resp).kind, succ |-> HandleBody(resp).succ,
               cost |-> resp.cost]
    ELSE IF resp.status = 429 THEN [kind |-> "rate_limited", succ |-> 0, cost |-> 0]
    ELSE [kind |-> "failed", succ |-> 0, cost |-> 0]

\* the log entries: a POST with the kind of end its attempt took, a sleep
Post(kind) == [op |-> "POST", secs |-> 0, met |-> kind]
Sleep(n) == [op |-> "sleep", secs |-> n, met |-> "none"]

\* attempt in range(retries), line 483
InRangeInclusive(a, r) == 0 <= a /\ a <= r

InRange(a, r) == 0 <= a /\ a < r

\* generate_image is called (lines 450-481)
Invoke ==
    /\ cpc \in {"idle", "returned"}
    /\ calls < MaxCalls
    /\ \E r \in 0..MaxRetriesArg : retries' = r
    /\ calls' = calls + 1
    /\ cpc' = "loop"
    /\ attempt' = 0
    /\ ret' = "None"
    /\ log' = << >>
    /\ results' = << >>
    /\ base_requests' = total_requests
    /\ UNCHANGED <<total_cost, total_requests, successful_requests, bytes_calls>>

\* one iteration of the for loop, lines 483-560
Attempt ==
    /\ cpc = "loop"
    /\ InRange(attempt, retries)
    /\ \E resp \in Responses :
          LET p == ProcessResponse(resp)
          IN  /\ total_requests' = total_requests + 1
              /\ total_cost' = total_cost + p.cost
              /\ successful_requests' = successful_requests + p.succ
              /\ results' = Append(results, IF p.kind = "return" THEN "data" ELSE "fail")
              /\ IF p.kind = "return"
                 THEN /\ ret' = "bytes"
                      /\ cpc' = "returned"
                      /\ bytes_calls' = bytes_calls + 1
                      /\ log' = Append(log, Post(p.kind))
                      /\ UNCHANGED attempt
                 ELSE /\ attempt' = attempt + 1
                      /\ log' = IF p.kind = "rate_limited"
                                THEN log \o <<Post(p.kind),
                                               Sleep(RETRY_DELAY * (attempt + 1) * 2)>>
                                ELSE IF attempt < retries - 1
                                     THEN log \o <<Post(p.kind), Sleep(RETRY_DELAY)>>
                                     ELSE Append(log, Post(p.kind))
                      /\ UNCHANGED <<ret, cpc, bytes_calls>>
    /\ UNCHANGED <<calls, retries, base_requests>>

\* the loop is exhausted: return None, line 562
ReturnNone ==
    /\ cpc = "loop"
    /\ ~InRange(attempt, retries)
    /\ ret' = "None"
    /\ cpc' = "returned"
    /\ UNCHANGED <<total_cost, total_requests, successful_requests, calls, retries,
                   attempt, log, results, base_requests, bytes_calls>>

\* ------------------------------------------------------------------------
\* main
\* ------------------------------------------------------------------------
\* the keys of BIOMES in insertion order (lines 241-330)
BIOMES ==
    << "oak_forest", "pine_forest", "jungle", "dead_forest", "mountains", "swamp",
       "desert", "tundra", "meadow", "cave_entrance", "enemy_lair" >>

\* the keys of BUILDINGS in insertion order (lines 364-410)
BUILDINGS ==
    << "den", "food_storage", "water_bowl", "beds", "herb_garden", "nursery",
       "elder_corner", "walls", "mouse_farm" >>

\* range(16), line 786
NumVariants == 16

NoBiome == "None"

\* parser.parse_args(), lines 688-730.  api_key: the key is a non-empty
\* string (the environment variable can be set to the empty string).
ArgSets ==
    [api_key : BOOLEAN, dry_run : BOOLEAN,
     biome : {NoBiome} \cup {BIOMES[i] : i \in 1..Len(BIOMES)},
     biomes : BOOLEAN, autotile : BOOLEAN, buildings : BOOLEAN, all : BOOLEAN]

NoArgs ==
    [api_key |-> TRUE, dry_run |-> FALSE, biome |-> NoBiome, biomes |-> FALSE,
     autotile |-> FALSE, buildings |-> FALSE, all |-> FALSE]

MainIdle ==
    /\ args = NoArgs /\ mpc = "start" /\ mi = 1 /\ mv = 0 /\ client = "None"
    /\ success_count = 0 /\ fail_count = 0 /\ attempted = << >>
    /\ network_used = FALSE /\ written = 0 /\ exit_status = "running"

\* line 739
AnyTarget(a) == a.biomes \/ a.autotile \/ a.buildings \/ a.all \/ a.biome # NoBiome

\* lines 757 and 780
biomes_to_generate(a) == IF a.biome # NoBiome THEN << a.biome >> ELSE BIOMES

\* lines 752, 775, 802
BiomesSelectedNoSingle(a) == a.biomes \/ a.all

BiomesSelected(a) == a.biomes \/ a.all \/ a.biome # NoBiome
AutotileSelected(a) == a.autotile \/ a.all
BuildingsSelected(a) == a.buildings \/ a.all

\* What a generate_biome_tile / generate_building call can do (lines 597-620,
\* 642-674): in a dry run it prints the prompt and returns True; otherwise it
\* calls client.generate_image and either saves the image and returns True,
\* or gets no image data and returns False, or an exception of Image.open,
\* img.save or write_bytes leaves the function.
AssetOutcomes(a) == IF a.dry_run THEN {"printed"} ELSE {"saved", "failed", "raised"}

\* The effect of one generate_* call and of the branch of main around it
\* (lines 761-772, 787-799, 808-818) on the counters.
GenerateAsset(asset, o) ==
    /\ attempted' = Append(attempted, asset)
    /\ network_used' = (network_used \/ o # "printed")
    /\ written' = IF o = "saved" THEN written + 1 ELSE written
    /\ success_count' = IF o \in {"printed", "saved"} THEN success_count + 1
                        ELSE success_count
    /\ fail_count' = IF o = "failed" THEN fail_count + 1 ELSE fail_count
    /\ exit_status' = IF o = "raised" THEN "1" ELSE exit_status

\* lines 733-749
MainStart ==
    /\ mpc = "start"
    /\ IF ~args.api_key /\ ~args.dry_run
       THEN mpc' = "exited" /\ exit_status' = "1" /\ client' = client
       ELSE IF ~AnyTarget(args)
       THEN mpc' = "exited" /\ exit_status' = "1" /\ client' = client
       ELSE /\ mpc' = "biomes"
            /\ exit_status' = exit_status
            /\ client' = IF ~args.dry_run THEN "OpenRouterClient" ELSE "None"
    /\ UNCHANGED <<args, mi, mv, success_count, fail_count, attempted,
                   network_used, written>>

\* one iteration of the loop of lines 759-772
BiomeTile ==
    /\ mpc = "biomes" /\ BiomesSelected(args)
    /\ mi <= Len(biomes_to_generate(args))
    /\ \E o \in AssetOutcomes(args) :
          /\ GenerateAsset(<<"tile", biomes_to_generate(args)[mi], -1>>, o)
          /\ mpc' = IF o = "raised" THEN "exited" ELSE mpc
    /\ mi' = mi + 1
    /\ UNCHANGED <<args, mv, client>>

\* lines 752 and 759: the section is not selected or its loop is exhausted
BiomesDone ==
    /\ mpc = "biomes"
    /\ ~BiomesSelected(args) \/ mi > Len(biomes_to_generate(args))
    /\ mpc' = "autotile" /\ mi' = 1 /\ mv' = 0
    /\ UNCHANGED <<args, client, success_count, fail_count, attempted,
                   network_used, written, exit_status>>

\* one iteration of the inner loop of lines 786-799
AutotileVariant ==
    /\ mpc = "autotile" /\ AutotileSelected(args)
    /\ mi <= Len(biomes_to_generate(args))
    /\ \E o \in AssetOutcomes(args) :
          /\ GenerateAsset(<<"variant", biomes_to_generate(args)[mi], mv>>, o)
          /\ mpc' = IF o = "raised" THEN "exited" ELSE mpc
    /\ IF mv + 1 < NumVariants
       THEN mv' = mv + 1 /\ mi' = mi
       ELSE mv' = 0 /\ mi' = mi + 1
    /\ UNCHANGED <<args, client>>

AutotileDone ==
    /\ mpc = "autotile"
    /\ ~AutotileSelected(args) \/ mi > Len(biomes_to_generate(args))
    /\ mpc' = "buildings" /\ mi' = 1 /\ mv' = 0
    /\ UNCHANGED <<args, client, success_count, fail_count, attempted,
                   network_used, written, exit_status>>

\* one iteration of the loop of lines 807-818
Building ==
    /\ mpc = "buildings" /\ BuildingsSelected(args)
    /\ mi <= Len(BUILDINGS)
    /\ \E o \in AssetOutcomes(args) :
          /\ GenerateAsset(<<"building", BUILDINGS[mi], -1>>, o)
          /\ mpc' = IF o = "raised" THEN "exited" ELSE mpc
    /\ mi' = mi + 1
    /\ UNCHANGED <<args, mv, client>>

BuildingsDone ==
    /\ mpc = "buildings"
    /\ ~BuildingsSelected(args) \/ mi > Len(BUILDINGS)
    /\ mpc' = "summary"
    /\ UNCHANGED <<args, mi, mv, client, success_count, fail_count, attempted,
                   network_used, written, exit_status>>

\* lines 823-845
Summary ==
    /\ mpc = "summary"
    /\ mpc' = "exited"
    /\ exit_status' = IF fail_count > 0 THEN "1" ELSE "0"
    /\ UNCHANGED <<args, mi, mv, client, success_count, fail_count, attempted,
                   network_used, written>>

\* ------------------------------------------------------------------------
\* Specification of the transform: any input of the bounded family, then
\* one call, then a call on the returned image.
\* ------------------------------------------------------------------------
\* The scenario image: a 4x4 grid, a 1-pixel magenta frame, a green centre.
Frame4x4 ==
    [c \in Coords(4, 4) |->
        IF c[1] \in {0, 3} \/ c[2] \in {0, 3}
        THEN <<255, 0, 255, 255>> ELSE <<10, 120, 10, 255>>]

InitGrid ==
    /\ width \in 0..MaxW
    /\ height \in 0..MaxH
    /\ width * height <= MaxPixels
    /\ mode \in Modes
    /\ \E rgb \in [Coords(width, height) -> Palette], pat \in AlphaPatterns :
          /\ mode = "RGB" => pat = "opaque"
          /\ pixels = [c \in Coords(width, height) |->
                         IF mode = "RGB" THEN rgb[c]
                         ELSE <<rgb[c][1], rgb[c][2], rgb[c][3], AlphaOf(pat, c)>>]
    /\ tolerance \in Tolerances
    /\ sample_size \in SampleSizes

InitScenario ==
    /\ width = 4 /\ height = 4 /\ mode = "RGBA"
    /\ pixels = Frame4x4
    /\ tolerance = 10
    /\ sample_size = 1

InitChroma ==
    /\ InitGrid \/ InitScenario
    /\ pc = "start"
    /\ first = NotCalled
    /\ second = NotCalled
    /\ ClientIdle
    /\ MainIdle
    /\ FillIdle

Call ==
    /\ pc = "start"
    /\ first' = remove_chroma_key_background(mode, pixels, width, height,
                                             tolerance, sample_size)
    /\ pc' = "once"
    /\ UNCHANGED <<mode, width, height, pixels, tolerance, sample_size, second>>
    /\ UNCHANGED <<clientVars, mainVars, fillVars>>

CallAgain ==
    /\ pc = "once"
    /\ second' = remove_chroma_key_background(first.mode, first.pixels, first.width,
                                              first.height, tolerance, sample_size)
    /\ pc' = "twice"
    /\ UNCHANGED <<mode, width, height, pixels, tolerance, sample_size, first>>
    /\ UNCHANGED <<clientVars, mainVars, fillVars>>

NextChroma == Call \/ CallAgain

SpecChroma == InitChroma /\ [][NextChroma]_vars

\* One call on the opaque RGBA images with the corner pixels as samples: the
\* inputs on which the fill is compared with its reorderings.
InitOrder ==
    /\ width \in 1..MaxW
    /\ height \in 1..MaxH
    /\ width * height <= MaxPixels
    /\ mode = "RGBA"
    /\ \E rgb \in [Coords(width, height) -> Palette] :
          pixels = [c \in Coords(width, height) |->
                      <<rgb[c][1], rgb[c][2], rgb[c][3], 255>>]
    /\ tolerance \in Tolerances
    /\ sample_size = 1
    /\ pc = "start"
    /\ first = NotCalled
    /\ second = NotCalled
    /\ ClientIdle
    /\ MainIdle
    /\ FillIdle

SpecOrder == InitOrder /\ [][Call]_vars

\* ------------------------------------------------------------------------
\* Specification of the client: a fresh client and up to MaxCalls calls of
\* generate_image, every POST meeting any response.
\* ------------------------------------------------------------------------
NoImage ==
    /\ mode = "RGBA" /\ width = 0 /\ height = 0 /\ pixels = << >>
    /\ tolerance = 70 /\ sample_size = 10
    /\ pc = "start" /\ first = NotCalled /\ second = NotCalled

InitClient == NoImage /\ ClientIdle /\ MainIdle /\ FillIdle

NextClient ==
    \/ Invoke /\ UNCHANGED <<chromaVars, mainVars, fillVars>>
    \/ Attempt /\ UNCHANGED <<chromaVars, mainVars, fillVars>>
    \/ ReturnNone /\ UNCHANGED <<chromaVars, mainVars, fillVars>>

SpecClient == InitClient /\ [][NextClient]_vars

\* ------------------------------------------------------------------------
\* Specification of main: any command line, every generate_* call ending in
\* any of the ways it can end.
\* ------------------------------------------------------------------------
InitMain ==
    /\ NoImage /\ ClientIdle /\ FillIdle
    /\ args \in ArgSets
    /\ mpc = "start" /\ mi = 1 /\ mv = 0 /\ client = "None"
    /\ success_count = 0 /\ fail_count = 0 /\ attempted = << >>
    /\ network_used = FALSE /\ written = 0 /\ exit_status = "running"

NextMain ==
    \/ MainStart /\ UNCHANGED <<chromaVars, clientVars, fillVars>>
    \/ BiomeTile /\ UNCHANGED <<chromaVars, clientVars, fillVars>>
    \/ BiomesDone /\ UNCHANGED <<chromaVars, clientVars, fillVars>>
    \/ AutotileVariant /\ UNCHANGED <<chromaVars, clientVars, fillVars>>
    \/ AutotileDone /\ UNCHANGED <<chromaVars, clientVars, fillVars>>
    \/ Building /\ UNCHANGED <<chromaVars, clientVars, fillVars>>
    \/ BuildingsDone /\ UNCHANGED <<chromaVars, clientVars, fillVars>>
    \/ Summary /\ UNCHANGED <<chromaVars, clientVars, fillVars>>

SpecMain == InitMain /\ [][NextMain]_vars

\* ------------------------------------------------------------------------
\* Specification of one call taken in steps, on the opaque RGBA images.  The
\* fair variant adds that a call inside its loop keeps executing: the function
\* is single-threaded code without any blocking operation in or after the loop.
\* ------------------------------------------------------------------------
InitFill == NoImage /\ ClientIdle /\ MainIdle /\ FillIdle

\* the call is entered with its arguments: image_bytes decoded (line 129),
\* tolerance and sample_size
Enter ==
    /\ fpc = "idle"
    /\ width' \in 0..MaxW
    /\ height' \in 0..MaxH
    /\ width' * height' <= MaxPixels
    /\ mode' = "RGBA"
    /\ \E rgb \in [Coords(width', height') -> Palette] :
          pixels' = [c \in Coords(width', height') |->
                       <<rgb[c][1], rgb[c][2], rgb[c][3], 255>>]
    /\ tolerance' \in Tolerances
    /\ sample_size' \in SampleSizes
    /\ fpc' = "start"
    /\ UNCHANGED <<pc, first, second>>
    /\ UNCHANGED <<img, bg_color, queue, visited, to_remove, out>>

NextFill ==
    \/ Enter /\ UNCHANGED <<clientVars, mainVars>>
    \/ Begin /\ UNCHANGED <<chromaVars, clientVars, mainVars>>
    \/ Step /\ UNCHANGED <<chromaVars, clientVars, mainVars>>
    \/ Finish /\ UNCHANGED <<chromaVars, clientVars, mainVars>>

SpecFill == InitFill /\ [][NextFill]_vars

SpecFillFair ==
    /\ SpecFill
    /\ WF_vars(Step /\ UNCHANGED <<chromaVars, clientVars, mainVars>>)
    /\ WF_vars(Finish /\ UNCHANGED <<chromaVars, clientVars, mainVars>>)

\* ------------------------------------------------------------------------
\* Vocabulary of the properties
\* ------------------------------------------------------------------------
Grid == Coords(width, height)
InputRGBA == ConvertRGBA(mode, pixels)
Returned(r) == ConvertRGBA(r.mode, r.pixels)

Border(w, h) == {c \in Coords(w, h) : c[1] \in {0, w - 1} \/ c[2] \in {0, h - 1}}

Adjacent(c, d) ==
    \/ c[1] = d[1] /\ (c[2] = d[2] + 1 \/ d[2] = c[2] + 1)
    \/ c[2] = d[2] /\ (c[1] = d[1] + 1 \/ d[1] = c[1] + 1)

\* the pixels whose squared RGB distance to bg is at most tol^2
Matching(px, bg, tol) ==
    {c \in DOMAIN px :
        LET p == px[c]
        IN  (p[1] - bg[1]) * (p[1] - bg[1]) + (p[2] - bg[2]) * (p[2] - bg[2])
              + (p[3] - bg[3]) * (p[3] - bg[3]) <= tol * tol}

RECURSIVE Grow(_, _)
Grow(S, M) ==
    LET T == S \cup {c \in M : \E d \in S : Adjacent(c, d)}
    IN  IF T = S THEN S ELSE Grow(T, M)

\* the pixels joined to a border pixel by a 4-connected chain of matching
\* pixels (the chain includes its two ends)
BorderConnected(px, w, h, bg, tol) ==
    Grow(Matching(px, bg, tol) \cap Border(w, h), Matching(px, bg, tol))

\* the four N x N corner windows, clipped to the image
CornerWindow(w, h, n) ==
    {c \in Coords(w, h) : (c[1] < n \/ c[1] >= w - n) /\ (c[2] < n \/ c[2] >= h - n)}

UniformCorners(C) ==
    /\ width >= 1 /\ height >= 1 /\ sample_size >= 1
    /\ \A c \in CornerWindow(width, height, sample_size) : RGB(InputRGBA[c]) = C

Range(seq) == {seq[i] : i \in 1..Len(seq)}

\* ------------------------------------------------------------------------
\* Properties of remove_chroma_key_background (SpecChroma)
\* ------------------------------------------------------------------------
\* C1: when the four corner windows of a non-empty image are uniformly of
\* one colour C, the call clears to (0,0,0,0) exactly the pixels joined to
\* the border by a 4-connected chain of pixels within tolerance of C, and
\* every other pixel keeps its RGB and alpha.
C1_UniformCornersClearBorderRegion ==
    pc # "start" /\ width >= 1 /\ height >= 1 =>
        LET C == RGB(InputRGBA[<<0, 0>>])
            R == BorderConnected(InputRGBA, width, height, C, tolerance)
        IN  UniformCorners(C) =>
                /\ first.returned = "png"
                /\ first.bg_color = C
                /\ first.to_remove = R
                /\ \A c \in Grid :
                      first.pixels[c] = IF c \in R THEN Cleared ELSE InputRGBA[c]

\* the 4x4 scenario: the 12 frame pixels are cleared, the centre is kept
C1_Witness ==
    /\ pc = "once" /\ pixels = Frame4x4 /\ tolerance = 10 /\ sample_size = 1
    /\ UniformCorners(Magenta)
    /\ Cardinality(first.to_remove) = 12
    /\ \A c \in {<<1, 1>>, <<1, 2>>, <<2, 1>>, <<2, 2>>} :
          first.pixels[c] = <<10, 120, 10, 255>>

\* C2: a pixel that is not joined to the border by a 4-connected chain of
\* pixels within tolerance of the estimate is never removed and keeps its
\* RGBA, even when its own colour is the estimate.
C2_Isolation ==
    pc # "start" =>
        \A c \in Grid :
            c \notin BorderConnected(InputRGBA, width, height, first.bg_color, tolerance)
                => /\ c \notin first.to_remove
                   /\ Returned(first)[c] = InputRGBA[c]

\* an enclosed pixel of exactly the estimate's colour survives a call that
\* removed other pixels
C2_Witness ==
    /\ pc = "once" /\ first.returned = "png" /\ first.to_remove # {}
    /\ \E c \in Grid \ Border(width, height) :
          /\ RGB(InputRGBA[c]) = first.bg_color
          /\ c \notin first.to_remove
          /\ first.pixels[c] = InputRGBA[c]
          /\ InputRGBA[c] # Cleared

\* C3 as stated: the call on the first call's output returns the first
\* call's output.
C3_Idempotent ==
    pc = "twice" => Returned(second) = Returned(first)

\* C3 amended: the second call returns the first call's output whenever it
\* computes the same background estimate as the first call (or none).
C3_IdempotentOnSameEstimate ==
    pc = "twice" /\ second.bg_color = first.bg_color
        => Returned(second) = Returned(first)

\* a second call with the same estimate after a first call that removed
\* some pixels and kept others
C3_Witness ==
    /\ pc = "twice" /\ first.returned = "png" /\ second.returned = "png"
    /\ second.bg_color = first.bg_color
    /\ first.to_remove # {} /\ first.to_remove # Grid
    /\ second.to_remove # {}

\* C4: the output has the input's width and height; each output pixel is the
\* input pixel or (0,0,0,0); the pixels in the removal set are cleared and no
\* other pixel changes.
C4_Frame ==
    pc # "start" =>
        /\ first.width = width /\ first.height = height
        /\ DOMAIN first.pixels = Grid
        /\ \A c \in Grid :
              /\ Returned(first)[c] \in {InputRGBA[c], Cleared}
              /\ c \in first.to_remove => Returned(first)[c] = Cleared
              /\ c \notin first.to_remove => Returned(first)[c] = InputRGBA[c]

\* a call that cleared a pixel with colour and alpha and kept another
C4_Witness ==
    /\ pc = "once" /\ first.returned = "png"
    /\ \E c \in first.to_remove : InputRGBA[c] # Cleared /\ first.pixels[c] = Cleared
    /\ \E c \in Grid \ first.to_remove : first.pixels[c] = InputRGBA[c]

\* C5: an image of zero width or zero height yields no corner sample and is
\* returned unchanged, the flood fill not being entered.
C5_ZeroAreaUnchanged ==
    pc # "start" /\ (width = 0 \/ height = 0) =>
        /\ first.all_bg_colors = << >>
        /\ first.returned = "image_bytes"
        /\ first.mode = mode /\ first.width = width /\ first.height = height
        /\ first.pixels = pixels
        /\ first.seeds = << >> /\ first.visited = {} /\ first.to_remove = {}

C5_Witness ==
    /\ pc = "once" /\ width = 0 /\ height > 0 /\ sample_size > 0
    /\ first.returned = "image_bytes"

\* C6: for an image of at least 1x1 and a sample size N >= 1 (also N larger
\* than the width or the height) corner sampling reads only coordinates of
\* the image, namely the clipped corner windows, yields at least one sample,
\* and the estimate is computed from the colours of those pixels.
C6_CornerClipping ==
    pc # "start" /\ width >= 1 /\ height >= 1 /\ sample_size >= 1 =>
        /\ Range(first.reads) \subseteq Grid
        /\ Range(first.reads) = CornerWindow(width, height, sample_size)
        /\ Len(first.reads) >= 1
        /\ Len(first.all_bg_colors) = Len(first.reads)
        /\ \A i \in 1..Len(first.reads) :
              first.all_bg_colors[i] = RGB(InputRGBA[first.reads[i]])
        /\ first.returned = "png"
        /\ \A ch \in 1..3 :
              /\ \E c \in Grid : first.bg_color[ch] >= InputRGBA[c][ch]
              /\ \E c \in Grid : first.bg_color[ch] <= InputRGBA[c][ch]

\* a sample window wider than the image
C6_Witness ==
    /\ pc = "once" /\ width = 1 /\ height >= 2 /\ sample_size = 2
    /\ Len(first.reads) >= 1
    /\ first.returned = "png"

\* C7: a 1x1 image is cleared for every tolerance >= 0 and every sample size
\* N >= 1: the estimate is its pixel's colour, and the seeds hold its
\* coordinate four times.
C7_OneByOneRemoved ==
    pc # "start" /\ width = 1 /\ height = 1 /\ sample_size >= 1 /\ tolerance >= 0 =>
        /\ first.bg_color = RGB(InputRGBA[<<0, 0>>])
        /\ first.seeds = << <<0, 0>>, <<0, 0>>, <<0, 0>>, <<0, 0>> >>
        /\ first.to_remove = {<<0, 0>>}
        /\ first.pixels[<<0, 0>>] = Cleared

C7_Witness ==
    /\ pc = "once" /\ width = 1 /\ height = 1 /\ tolerance = 0 /\ sample_size = 2
    /\ InputRGBA[<<0, 0>>] = <<255, 0, 255, 255>>
    /\ first.pixels[<<0, 0>>] = Cleared

\* C8: with a tolerance of at least sqrt(3 * 255^2) every pixel of a
\* non-empty image (sample size >= 1) is cleared, also pixels enclosed by
\* colours far from the estimate.
C8_LargeToleranceClearsAll ==
    pc # "start" /\ width >= 1 /\ height >= 1 /\ sample_size >= 1
        /\ tolerance * tolerance >= 3 * 255 * 255 =>
        /\ first.returned = "png"
        /\ first.to_remove = Grid
        /\ \A c \in Grid : first.pixels[c] = Cleared

\* everything is cleared although the centre is enclosed by pixels at
\* distance > 300 from the estimate
C8_Witness ==
    /\ pc = "once" /\ width = 3 /\ height = 3 /\ tolerance = 442
    /\ first.bg_color = Magenta
    /\ \A c \in Border(3, 3) \ CornerWindow(3, 3, 1) : RGB(InputRGBA[c]) = Black
    /\ RGB(InputRGBA[<<1, 1>>]) = Magenta
    /\ \A c \in Grid : first.pixels[c] = Cleared

\* C9: the removal set and the output grid do not depend on the order in
\* which the seeds are queued nor on the order in which the four
\* neighbours are appended.
SeedOrders(w, h) ==
    { Seeds(w, h),
      SeedCols(0, w, h) \o SeedRows(0, w, h),
      [i \in 1..Len(Seeds(w, h)) |-> Seeds(w, h)[Len(Seeds(w, h)) + 1 - i]] }

NeighbourOrders ==
    { [i \in 1..4 |-> NeighbourOffsets[p[i]]] : p \in Permutations(1..4) }

C9_OrderIndependent ==
    pc = "once" /\ first.returned = "png" =>
        \A sd \in SeedOrders(width, height), nb \in NeighbourOrders :
            LET f == Fill(sd, InputRGBA, width, height, first.bg_color, tolerance, nb)
            IN  /\ f.to_remove = first.to_remove
                /\ ClearPixels(InputRGBA, f.to_remove) = first.pixels

C9_Witness ==
    /\ pc = "once" /\ first.returned = "png" /\ width = 3 /\ height = 3
    /\ first.to_remove # {} /\ first.to_remove # Grid
    /\ first.to_remove \ Border(3, 3) # {}

\* ------------------------------------------------------------------------
\* Properties of OpenRouterClient.generate_image (SpecClient)
\* ------------------------------------------------------------------------
Posts == Cardinality({i \in 1..Len(log) : log[i].op = "POST"})

\* C10: a call with retries = R makes at most R POSTs, one per attempt, the
\* attempts before the last one all failed, bytes are returned exactly when
\* the last attempt yielded image data, None exactly when all R attempts
\* failed (at once for R = 0), and total_requests grew by the number of POSTs.
C10_RetryLoop ==
    /\ Posts <= retries
    /\ Len(results) = Posts
    /\ total_requests = base_requests + Posts
    /\ \A i \in 1..(Posts - 1) : results[i] = "fail"
    /\ cpc = "loop" => \A i \in 1..Posts : results[i] = "fail"
    /\ cpc = "returned" =>
          /\ ret = "bytes" <=> (Posts >= 1 /\ results[Posts] = "data")
          /\ ret = "None" <=> (Posts = retries /\ \A i \in 1..Posts : results[i] = "fail")
          /\ retries = 0 => ret = "None" /\ Posts = 0

\* the second of three allowed attempts yields the image
C10_Witness ==
    /\ cpc = "returned" /\ retries = 3 /\ ret = "bytes"
    /\ Posts = 2 /\ results = <<"fail", "data">>
    /\ total_requests = base_requests + 2

\* ------------------------------------------------------------------------
\* Properties of main (SpecMain)
\* ------------------------------------------------------------------------
\* C11: in a dry run, whatever the target flags, no client is constructed, no
\* HTTP request is made, no image file is written, every attempted asset is
\* counted as a success, and the process does not exit with status 1.
C11_DryRun ==
    args.dry_run =>
        /\ client = "None"
        /\ ~network_used
        /\ written = 0
        /\ fail_count = 0
        /\ success_count = Len(attempted)
        /\ exit_status # "1"

\* ------------------------------------------------------------------------
\* Properties of the flood fill taken in steps (SpecFill, SpecFillFair)
\* ------------------------------------------------------------------------
\* the pixels whose distance to the estimate exceeds the tolerance
OverTolerance == Grid \ Matching(InputRGBA, bg_color, tolerance)

\* C12: no pixel whose distance to the estimate exceeds the tolerance is ever
\* in the removal set; the iteration that takes an unvisited border pixel over
\* the tolerance from the queue marks it visited, removes nothing and appends
\* nothing to the queue; so every removed pixel is joined to the border by a
\* chain of matching pixels.
C12_OverToleranceNeverRemoved ==
    /\ [](to_remove \cap OverTolerance = {})
    /\ [](to_remove \subseteq BorderConnected(InputRGBA, width, height,
                                              bg_color, tolerance))
    /\ [][(/\ fpc = "fill" /\ queue # << >>
           /\ Head(queue) \in (Border(width, height) \cap OverTolerance) \ visited)
          => /\ visited' = visited \cup {Head(queue)}
             /\ to_remove' = to_remove
             /\ queue' = Tail(queue)]_vars

\* a finished fill that removed some pixels, met a border pixel over the
\* tolerance and so left a matching pixel behind it untouched
C12_Witness ==
    /\ fpc = "returned"
    /\ to_remove # {}
    /\ \E c \in Border(width, height) \cap OverTolerance : c \in visited
    /\ \E d \in Matching(InputRGBA, bg_color, tolerance) : d \notin visited

\* C13: a coordinate is processed (marked visited and colour-tested) at most
\* once: an iteration either only takes its coordinate from the queue, or its
\* coordinate was not yet visited and is the one coordinate it adds to the
\* visited set, and the visited set never loses a coordinate; the removal set
\* is a subset of the visited set; the visited set holds only in-bounds
\* coordinates.
C13_VisitedAtMostOnce ==
    /\ [](to_remove \subseteq visited /\ visited \subseteq Grid)
    /\ [][visited \subseteq visited']_vars
    /\ [][(fpc = "fill" /\ queue # << >>)
          => \/ /\ visited' = visited
                /\ to_remove' = to_remove
                /\ queue' = Tail(queue)
             \/ /\ Head(queue) \notin visited
                /\ visited' = visited \cup {Head(queue)}
                /\ to_remove' \subseteq to_remove \cup {Head(queue)}]_vars

\* a finished fill of a nine-pixel image that processed every pixel, removed
\* some and kept some, although each pixel was queued several times
C13_Witness ==
    /\ fpc = "returned"
    /\ Cardinality(Grid) = 9
    /\ visited = Grid
    /\ to_remove # {}
    /\ to_remove # visited

\* C14 as stated: the visited set, the removal set and the queue each hold at
\* most width x height entries, and the queue never holds a coordinate twice.
C14_BoundedByPixelCount ==
    /\ Cardinality(visited) <= width * height
    /\ Cardinality(to_remove) <= width * height
    /\ Len(queue) <= width * height
    /\ \A i, j \in 1..Len(queue) : queue[i] = queue[j] => i = j

\* C14, amended: the visited set and the removal set each hold at most
\* width x height entries; the queue holds at most the 2 (width + height)
\* seeds plus four entries for every removed pixel, hence at most
\* 2 (width + height) + 4 width x height entries.
C14_BoundedWorkingSets ==
    /\ Cardinality(visited) <= width * height
    /\ Cardinality(to_remove) <= width * height
    /\ Len(queue) <= 2 * (width + height) + 4 * Cardinality(to_remove)
    /\ Len(queue) <= 2 * (width + height) + 4 * width * height

\* a running fill whose queue is longer than the image has pixels, holds a
\* coordinate twice and holds a coordinate outside the image
C14_Witness ==
    /\ fpc = "fill"
    /\ to_remove # {}
    /\ Len(queue) > width * height
    /\ \E i, j \in 1..Len(queue) : i # j /\ queue[i] = queue[j]
    /\ \E i \in 1..Len(queue) : queue[i] \notin Grid

\* C15: a call that has entered the flood-fill loop eventually finds its
\* queue empty and returns.
C15_FillTerminates == (fpc = "fill") ~> (fpc = "returned")

\* a returned call whose loop ran: it removed every pixel of a nine-pixel
\* image, each of them appending four coordinates to the queue
C15_Witness ==
    /\ fpc = "returned"
    /\ out.returned = "png"
    /\ queue = << >>
    /\ Cardinality(to_remove) = 9

\* ------------------------------------------------------------------------
\* Further properties of remove_chroma_key_background (SpecChroma)
\* ------------------------------------------------------------------------
\* the N x N window anchored at a, clipped to the image
Window(a) ==
    {c \in Grid : /\ a[1] <= c[1] /\ c[1] < a[1] + sample_size
                  /\ a[2] <= c[2] /\ c[2] < a[2] + sample_size}

AnchorAt(k) ==
    IF k = 1 THEN <<0, 0>>
    ELSE IF k = 2 THEN <<width - sample_size, 0>>
    ELSE IF k = 3 THEN <<0, height - sample_size>>
    ELSE <<width - sample_size, height - sample_size>>

\* the sum of channel ch of the input over the pixels of S
RECURSIVE ChannelSum(_, _)
ChannelSum(S, ch) ==
    IF S = {} THEN 0
    ELSE LET c == CHOOSE x \in S : TRUE
         IN  InputRGBA[c][ch] + ChannelSum(S \ {c}, ch)

\* sum and count over the four windows, a pixel counting once per window
WindowsSum(ch) ==
    ChannelSum(Window(AnchorAt(1)), ch) + ChannelSum(Window(AnchorAt(2)), ch)
  + ChannelSum(Window(AnchorAt(3)), ch) + ChannelSum(Window(AnchorAt(4)), ch)

WindowsCount ==
    Cardinality(Window(AnchorAt(1))) + Cardinality(Window(AnchorAt(2)))
  + Cardinality(Window(AnchorAt(3))) + Cardinality(Window(AnchorAt(4)))

Sampled == CornerWindow(width, height, sample_size)

\* C16 as stated: the estimate is per channel the floor of the mean over the
\* pixels of the four clipped corner windows, each sampled pixel counted once,
\* and lies in 0..255 between the least and the greatest sampled value.
C16_MeanOfSampledPixels ==
    (pc # "start" /\ first.returned = "png") =>
        \A ch \in 1..3 :
            /\ first.bg_color[ch] = ChannelSum(Sampled, ch) \div Cardinality(Sampled)
            /\ first.bg_color[ch] \in 0..255
            /\ \E c \in Sampled : InputRGBA[c][ch] <= first.bg_color[ch]
            /\ \E c \in Sampled : InputRGBA[c][ch] >= first.bg_color[ch]

\* C16, amended: the estimate is per channel the floor of the mean over the
\* four clipped corner windows taken one after the other, a pixel counting
\* once for every window that contains it; it lies in 0..255 between the
\* least and the greatest sampled value; the call computes an estimate exactly
\* when the windows hold at least one pixel.
C16_MeanOverWindows ==
    pc # "start" =>
        /\ first.returned = "png" <=> WindowsCount > 0
        /\ first.returned = "png" =>
              \A ch \in 1..3 :
                  /\ first.bg_color[ch] = WindowsSum(ch) \div WindowsCount
                  /\ first.bg_color[ch] \in 0..255
                  /\ \E c \in Sampled : InputRGBA[c][ch] <= first.bg_color[ch]
                  /\ \E c \in Sampled : InputRGBA[c][ch] >= first.bg_color[ch]

\* a call whose corner windows overlap, with an estimate that is neither a
\* sampled colour nor the mean over the distinct sampled pixels
C16_Witness ==
    /\ pc = "once"
    /\ first.returned = "png"
    /\ WindowsCount > Cardinality(Sampled)
    /\ first.bg_color[1] \notin {0, 255}
    /\ first.bg_color[1] # ChannelSum(Sampled, 1) \div Cardinality(Sampled)

\* the image that agrees with the input on R, G and B and is fully opaque
OpaqueTwin ==
    [c \in Grid |-> <<InputRGBA[c][1], InputRGBA[c][2], InputRGBA[c][3], 255>>]

TwinCall ==
    remove_chroma_key_background("RGBA", OpaqueTwin, width, height,
                                 tolerance, sample_size)

\* C17: the call computes the same background estimate and the same removal
\* set as the call with the same tolerance and sample size on the fully opaque
\* image with the same R, G and B; hence any two images that agree on R, G
\* and B and differ in alpha get the same estimate and the same removal set.
C17_AlphaIgnored ==
    pc = "once" =>
        /\ TwinCall.returned = first.returned
        /\ TwinCall.bg_color = first.bg_color
        /\ TwinCall.to_remove = first.to_remove

\* a call on an image with a fully transparent sampled corner pixel that is
\* removed like its opaque twin's, while another pixel is kept
C17_Witness ==
    /\ pc = "once"
    /\ first.returned = "png"
    /\ \E c \in Sampled \cap first.to_remove : InputRGBA[c][4] = 0
    /\ \E c \in Grid : InputRGBA[c][4] = 128
    /\ first.to_remove # Grid
    /\ OpaqueTwin # InputRGBA

\* ------------------------------------------------------------------------
\* Further properties of OpenRouterClient (SpecClient)
\* ------------------------------------------------------------------------
\* C18: between calls, successful_requests equals the number of calls that
\* returned image bytes, 0 <= successful_requests <= total_requests, and the
\* failed_requests of get_cost_summary is not negative.
C18_SuccessfulCountsReturnedCalls ==
    cpc # "loop" =>
        /\ successful_requests = bytes_calls
        /\ 0 <= successful_requests
        /\ successful_requests <= total_requests
        /\ get_cost_summary.failed_requests >= 0

\* the 0-based attempt whose POST is the log entry i
AttemptOf(i) == Cardinality({j \in 1..i : log[j].op = "POST"}) - 1

\* C19: in a returned call every sleep is directly followed by another POST
\* (no wait after the final attempt); what follows the POST of an attempt k
\* that met a 429 is one sleep of RETRY_DELAY * (k + 1) * 2 seconds, and the
\* POST of an attempt before the last that failed in another way is followed
\* by one sleep of RETRY_DELAY seconds.
C19_SleepThenPost ==
    cpc = "returned" =>
        \A i \in 1..Len(log) :
            /\ log[i].op = "sleep" => i < Len(log) /\ log[i + 1].op = "POST"
            /\ (log[i].op = "POST" /\ log[i].met = "rate_limited" /\ i < Len(log)) =>
                  log[i + 1] = Sleep(RETRY_DELAY * (AttemptOf(i) + 1) * 2)
            /\ (log[i].op = "POST" /\ log[i].met = "failed"
                    /\ AttemptOf(i) < retries - 1) =>
                  i < Len(log) /\ log[i + 1] = Sleep(RETRY_DELAY)

\* ------------------------------------------------------------------------
\* Further properties of main (SpecMain)
\* ------------------------------------------------------------------------
\* the biomes a command line names: the one of --biome, else all of them
NamedBiomes == IF args.biome # NoBiome THEN << args.biome >> ELSE BIOMES

\* the assets a command line selects, in the order base tiles, autotile
\* variants 0..15 of each biome, buildings
PlannedTiles ==
    IF args.biomes \/ args.all \/ args.biome # NoBiome
    THEN [i \in 1..Len(NamedBiomes) |-> <<"tile", NamedBiomes[i], -1>>]
    ELSE << >>

PlannedVariants ==
    IF args.autotile \/ args.all
    THEN [k \in 1..(16 * Len(NamedBiomes)) |->
            <<"variant", NamedBiomes[((k - 1) \div 16) + 1], (k - 1) % 16>>]
    ELSE << >>

PlannedBuildings ==
    IF args.buildings \/ args.all
    THEN [i \in 1..Len(BUILDINGS) |-> <<"building", BUILDINGS[i], -1>>]
    ELSE << >>

Plan == PlannedTiles \o PlannedVariants \o PlannedBuildings

IsPrefix(p, q) == Len(p) <= Len(q) /\ \A i \in 1..Len(p) : p[i] = q[i]

Rejected ==
    \/ ~args.api_key /\ ~args.dry_run
    \/ ~(args.biomes \/ args.autotile \/ args.buildings \/ args.all
            \/ args.biome # NoBiome)

\* an exception left a generate_* call: its asset is counted neither as a
\* success nor as a failure
Crashed == success_count + fail_count < Len(attempted)

====
